---- MODULE Spec2Model ----
(***************************************************************************)
(* Model of the Tokenbound SDK client (packages/sdk/src/TokenboundClient.ts *)
(* and packages/sdk/src/functions/ethers.ts): construction of one client,  *)
(* then any sequence of its five public operations against an external     *)
(* signer / wallet backend whose replies are nondeterministic.              *)
(***************************************************************************)
EXTENDS Integers, Sequences, FiniteSets, TLC

\* ---------------------------------------------------------------- bounds
MaxCalls == 3          \* operations performed on the client in one behaviour
MaxValue == 1          \* native-token values range over 0..MaxValue

\* ------------------------------------------------- optional (x?: T) values
None == <<>>
Some(v) == <<v>>

\* ------------------------------------------------------------ input sets
ImplementationAddresses == {"0xImplA", "0xImplB"}
RegistryAddresses == {"0xRegA", "0xRegB"}
TokenContracts == {"0xe7134a"}
TokenIds == {"1", "9"}
Accounts == {"0xAcct", "0xDest"}
Datas == {<<>>, <<"0xd1">>}
Values == 0..MaxValue
Networks == {1, 5}
OptChainIds == {None, Some(0), Some(1), Some(5)}
OptSigners == {None, Some("ethersSigner")}
Wallets == {[provider |-> TRUE, network |-> n] : n \in Networks}
             \cup {[provider |-> FALSE, network |-> 1]}
OptWallets == {None} \cup {Some(w) : w \in Wallets}
CustomImplementations ==
  {[implementationAddress |-> i, registryAddress |-> r] :
     i \in ImplementationAddresses, r \in RegistryAddresses}
OptCustomImplementations == {None} \cup {Some(c) : c \in CustomImplementations}
Opt(S) == {None} \cup {Some(x) : x \in S}

TokenboundClientOptions ==
  [chainId : OptChainIds, signer : OptSigners, walletClient : OptWallets,
   customImplementation : OptCustomImplementations]

TBAccountParams ==
  [tokenContract : TokenContracts, tokenId : TokenIds,
   implementationAddress : Opt(ImplementationAddresses),
   registryAddress : Opt(RegistryAddresses)]

ExecuteCallParams ==
  [account : Accounts, to : Accounts, value : Values, data : Datas]

\* ------------------------------------------------ outcomes of a call
Return(v) == [kind |-> "return", value |-> v]
Throw(e) == [kind |-> "throw", value |-> e]

BackendErrors == {"user rejected", "network failure"}
TxHashes == {"0xhash1", "0xhash2"}
SendReplies == {Return(h) : h \in TxHashes} \cup {Throw(e) : e \in BackendErrors}
NetworkFailure == Throw("network failure")

\* ------------------------------------------------------------ constants
erc6551AccountImplementationAddress == "0xImplDefault"
erc6551RegistryAddress == "0xRegDefault"

VARIABLES options, status, ctorError,
          chainId, isInitialized, signer, walletClient, customImplementation,
          last, calls

fields == <<chainId, isInitialized, signer, walletClient, customImplementation>>
vars == <<options, status, ctorError, chainId, isInitialized, signer,
          walletClient, customImplementation, last, calls>>

NoCall == [op |-> "none", params |-> None, result |-> [kind |-> "none", value |-> None],
           backendCalls |-> <<>>, args |-> None]

Init ==
  /\ options \in TokenboundClientOptions
  /\ status = "new"
  /\ ctorError = None
  /\ chainId = None
  /\ isInitialized = FALSE
  /\ signer = None
  /\ walletClient = None
  /\ customImplementation = None
  /\ last = NoCall
  /\ calls = 0

\* ------------------------------------------------------------ constructor
\* !options.chainId : undefined and 0 are both falsy
chainIdMissing_undefinedOnly(opts) == opts.chainId = None
chainIdMissing(opts) == opts.chainId = None \/ opts.chainId[1] = 0

bothBackends_never(opts) == FALSE
bothBackends(opts) == opts.signer # None /\ opts.walletClient # None

Construct ==
  /\ status = "new"
  /\ IF chainIdMissing(options)
       THEN /\ status' = "failed"
            /\ ctorError' = Some("chainId is required.")
            /\ UNCHANGED fields
       ELSE IF bothBackends(options)
       THEN /\ status' = "failed"
            /\ ctorError' = Some("Only one of signer or walletClient should be provided.")
            /\ UNCHANGED fields
       ELSE /\ chainId' = options.chainId
            /\ signer' = IF options.signer # None THEN options.signer ELSE None
            /\ walletClient' = IF options.signer = None /\ options.walletClient # None
                                 THEN options.walletClient ELSE None
            /\ customImplementation' = IF options.customImplementation # None
                                         THEN options.customImplementation ELSE None
            /\ isInitialized' = TRUE
            /\ status' = "ok"
            /\ ctorError' = None
  /\ UNCHANGED <<options, last, calls>>

\* ------------------------------------------- functions imported by the client
initData == <<"initialize">>

WithDefault(o, d) == IF o # None THEN o[1] ELSE d

getCreationCode(implementation_, chainId_, tokenContract_, tokenId_, salt_) ==
  <<"creationCode", implementation_, salt_, chainId_, tokenContract_, tokenId_>>

computeAccount(tokenContract, tokenId, chain, implementationAddress, registryAddress) ==
  <<"create2",
    WithDefault(registryAddress, erc6551RegistryAddress),
    0,
    getCreationCode(WithDefault(implementationAddress, erc6551AccountImplementationAddress),
                    chain, tokenContract, tokenId, 0)>>

encodeCreateAccount(impl, chain, tokenContract, tokenId, salt, init) ==
  <<"createAccount", impl, chain, tokenContract, tokenId, salt, init>>

encodeExecuteCall(to, value, data) == <<"executeCall", to, value, data>>

prepareCreateAccount(tokenContract, tokenId, chain, implementationAddress, registryAddress) ==
  [to |-> WithDefault(registryAddress, erc6551RegistryAddress),
   value |-> 0,
   data |-> encodeCreateAccount(
              WithDefault(implementationAddress, erc6551AccountImplementationAddress),
              chain, tokenContract, tokenId, 0, initData)]

prepareExecuteCall(account, to, value, data) ==
  [to |-> account, value |-> value, data |-> encodeExecuteCall(to, value, data)]

\* One invocation of the external backend and what it answered.
BackendCall(target, method, tx, reply) ==
  [target |-> target, method |-> method, tx |-> tx, reply |-> reply]

NoTx == [to |-> "", value |-> 0, data |-> <<>>]

Run(result, backendCalls, args) ==
  [result |-> result, backendCalls |-> backendCalls, args |-> args]

Args(impl, reg, chain) == [implementation |-> impl, registry |-> reg, chainId |-> chain]

\* functions/ethers.ts createAccount(tokenContract, tokenId, signer)
createAccount(tokenContract, tokenId, wallet, netReply, sendReply) ==
  IF ~wallet.provider
    THEN Run(Throw("Signer has no provider"), <<>>, None)
  ELSE IF netReply.kind = "throw"
    THEN Run(netReply, <<BackendCall("walletClient", "getNetwork", NoTx, netReply)>>, None)
  ELSE Run(sendReply,
           <<BackendCall("walletClient", "getNetwork", NoTx, netReply),
             BackendCall("walletClient", "sendTransaction",
                         [to |-> erc6551RegistryAddress, value |-> 0,
                          data |-> encodeCreateAccount(erc6551AccountImplementationAddress,
                                                       netReply.value, tokenContract, tokenId,
                                                       0, initData)],
                         sendReply)>>,
           Some(Args(Some(erc6551AccountImplementationAddress),
                     Some(erc6551RegistryAddress), netReply.value)))

\* functions/ethers.ts executeCall(account, to, value, data, signer)
executeCall(account, to, value, data, wallet, sendReply) ==
  Run(sendReply,
      <<BackendCall("walletClient", "sendTransaction",
                    [to |-> account, value |-> 0, data |-> encodeExecuteCall(to, value, data)],
                    sendReply)>>,
      None)

\* ------------------------------------------------------- client methods
\* this.customImplementation?.implementationAddress || implementationAddress
implementation(custom, implementationAddress) ==
  IF custom # None THEN Some(custom[1].implementationAddress) ELSE implementationAddress

\* catch (error) { throw error }
catchRethrow_wrapped(run) ==
  IF run.result.kind = "throw"
    THEN [run EXCEPT !.result = Throw("TokenboundClient error")]
    ELSE run
catchRethrow(run) == run

NoBackend_silent == Run(Return("0x"), <<>>, None)
NoBackend == Run(Throw("No wallet client or signer available."), <<>>, None)

Client_getAccount(params) ==
  LET impl == implementation(customImplementation, params.implementationAddress)
  IN catchRethrow(
       Run(Return(computeAccount(params.tokenContract, params.tokenId, chainId[1],
                                 impl, params.registryAddress)),
           <<>>,
           Some(Args(impl, params.registryAddress, chainId[1]))))

Client_prepareCreateAccount(params) ==
  LET impl == implementation(customImplementation, params.implementationAddress)
  IN Run(Return(prepareCreateAccount(params.tokenContract, params.tokenId, chainId[1],
                                     impl, params.registryAddress)),
         <<>>,
         Some(Args(impl, params.registryAddress, chainId[1])))

\* the params object createAccount hands to this.prepareCreateAccount
signerCreateParams_noRegistry(params, impl) ==
  [tokenContract |-> params.tokenContract, tokenId |-> params.tokenId,
   implementationAddress |-> impl, registryAddress |-> None]
signerCreateParams(params, impl) ==
  [tokenContract |-> params.tokenContract, tokenId |-> params.tokenId,
   implementationAddress |-> impl, registryAddress |-> params.registryAddress]

Client_createAccount(params, netReply, sendReply) ==
  LET impl == implementation(customImplementation, params.implementationAddress)
  IN catchRethrow(
       IF signer # None
         THEN LET prepared == Client_prepareCreateAccount(signerCreateParams(params, impl))
              IN Run(sendReply,
                     <<BackendCall("signer", "sendTransaction",
                                   prepared.result.value, sendReply)>>,
                     prepared.args)
       ELSE IF walletClient # None
         THEN createAccount(params.tokenContract, params.tokenId, walletClient[1],
                            netReply, sendReply)
       ELSE NoBackend)

Client_prepareExecuteCall(params) ==
  Run(Return(prepareExecuteCall(params.account, params.to, params.value, params.data)),
      <<>>, None)

Client_executeCall(params, sendReply) ==
  catchRethrow(
    IF signer # None
      THEN Run(sendReply,
               <<BackendCall("signer", "sendTransaction",
                             [to |-> params.to, value |-> params.value, data |-> params.data],
                             sendReply)>>,
               None)
    ELSE IF walletClient # None
      THEN executeCall(params.account, params.to, params.value, params.data,
                       walletClient[1], sendReply)
    ELSE NoBackend)

\* ------------------------------------------------------------- actions
Log(op, params, run) ==
  [op |-> op, params |-> Some(params), result |-> run.result,
   backendCalls |-> run.backendCalls, args |-> run.args]

Callable == status = "ok" /\ calls < MaxCalls

\* signer.provider.getNetwork(): fails, or reports the wallet's connected chain
getNetwork(fails) ==
  IF fails THEN NetworkFailure
  ELSE Return(IF walletClient # None THEN walletClient[1].network ELSE 1)

GetAccount_caching ==
  /\ Callable
  /\ \E params \in TBAccountParams :
       /\ last' = Log("getAccount", params, Client_getAccount(params))
       /\ customImplementation' =
            IF params.implementationAddress # None /\ params.registryAddress # None
              THEN Some([implementationAddress |-> params.implementationAddress[1],
                         registryAddress |-> params.registryAddress[1]])
              ELSE customImplementation
  /\ calls' = calls + 1
  /\ UNCHANGED <<options, status, ctorError, chainId, isInitialized, signer, walletClient>>

GetAccount ==
  /\ Callable
  /\ \E params \in TBAccountParams :
       last' = Log("getAccount", params, Client_getAccount(params))
  /\ calls' = calls + 1
  /\ UNCHANGED <<options, status, ctorError, fields>>

PrepareCreateAccount ==
  /\ Callable
  /\ \E params \in TBAccountParams :
       last' = Log("prepareCreateAccount", params, Client_prepareCreateAccount(params))
  /\ calls' = calls + 1
  /\ UNCHANGED <<options, status, ctorError, fields>>

CreateAccount ==
  /\ Callable
  /\ \E params \in TBAccountParams, netFails \in BOOLEAN, sendReply \in SendReplies :
       last' = Log("createAccount", params,
                   Client_createAccount(params, getNetwork(netFails), sendReply))
  /\ calls' = calls + 1
  /\ UNCHANGED <<options, status, ctorError, fields>>

PrepareExecuteCall ==
  /\ Callable
  /\ \E params \in ExecuteCallParams :
       last' = Log("prepareExecuteCall", params, Client_prepareExecuteCall(params))
  /\ calls' = calls + 1
  /\ UNCHANGED <<options, status, ctorError, fields>>

ExecuteCall ==
  /\ Callable
  /\ \E params \in ExecuteCallParams, sendReply \in SendReplies :
       last' = Log("executeCall", params, Client_executeCall(params, sendReply))
  /\ calls' = calls + 1
  /\ UNCHANGED <<options, status, ctorError, fields>>

Next ==
  \/ Construct
  \/ GetAccount
  \/ PrepareCreateAccount
  \/ CreateAccount
  \/ PrepareExecuteCall
  \/ ExecuteCall

Spec == Init /\ [][Next]_vars

\* ------------------------------------------------------------ properties
CreateFamily == {"getAccount", "prepareCreateAccount", "createAccount"}
PureOps == {"getAccount", "prepareCreateAccount", "prepareExecuteCall"}
SubmittingOps == {"createAccount", "executeCall"}

\* the addresses and chain a create-family call ends up using, defaults applied
Effective(a) ==
  [implementation |-> WithDefault(a.implementation, erc6551AccountImplementationAddress),
   registry |-> WithDefault(a.registry, erc6551RegistryAddress),
   chainId |-> a.chainId]

\* C1: when the client has a customImplementation and the call supplies its
\* own implementationAddress, the implementation address handed to the
\* derivation / encoding is the per-call one.
C1_PerCallImplementationWins ==
  (/\ last.op \in CreateFamily
   /\ customImplementation # None
   /\ last.params[1].implementationAddress # None
   /\ last.args # None)
  => last.args[1].implementation = last.params[1].implementationAddress

\* C2: in the raw-signer branch executeCall submits exactly the transaction
\* prepareExecuteCall returns for the same parameters (destination = account,
\* data = encoded execute-call).
C2_ExecuteCallSendsPrepared ==
  (last.op = "executeCall" /\ signer # None)
  => /\ Len(last.backendCalls) = 1
     /\ last.backendCalls[1].tx = Client_prepareExecuteCall(last.params[1]).result.value

\* C3: with a client-level customImplementation and no per-call
\* registryAddress, the registry address handed to the derivation / encoding
\* is customImplementation.registryAddress.
C3_ClientRegistryUsed ==
  (/\ last.op \in CreateFamily
   /\ customImplementation # None
   /\ last.params[1].registryAddress = None
   /\ last.args # None)
  => last.args[1].registry = Some(customImplementation[1].registryAddress)

\* C4: construction with neither backend and a non-zero chainId succeeds; on
\* such a client createAccount and executeCall fail with the no-backend error
\* without invoking any backend, and the three pure operations return.
C4_NoBackendLazyFailure ==
  /\ (/\ status # "new"
      /\ options.signer = None /\ options.walletClient = None
      /\ options.chainId # None /\ options.chainId[1] # 0)
     => (status = "ok" /\ signer = None /\ walletClient = None)
  /\ (status = "ok" /\ signer = None /\ walletClient = None)
     => /\ last.op \in SubmittingOps
           => /\ last.result = Throw("No wallet client or signer available.")
              /\ last.backendCalls = <<>>
        /\ last.op \in PureOps => last.result.kind = "return"

C4_Witness ==
  /\ status = "ok" /\ signer = None /\ walletClient = None
  /\ last.op = "createAccount"
  /\ last.result.kind = "throw"

\* C5: construction with both signer and walletClient fails and yields no
\* client (nothing bound, isInitialized stays false); every constructed client
\* has at most one backend bound.
C5_BothBackendsRejected ==
  /\ (options.signer # None /\ options.walletClient # None)
     => /\ status # "ok"
        /\ ~isInitialized
        /\ signer = None /\ walletClient = None
        /\ status # "new" => (status = "failed" /\ ctorError # None)
  /\ status = "ok" => ~(signer # None /\ walletClient # None)

C5_Witness ==
  /\ status = "failed"
  /\ options.signer # None /\ options.walletClient # None
  /\ options.chainId = Some(1)

\* C6: construction with a missing or zero chainId fails whatever else is
\* supplied; every constructed client holds a non-zero chainId equal to
\* options.chainId.
C6_ChainIdRequired ==
  /\ (status # "new" /\ (options.chainId = None \/ options.chainId[1] = 0))
     => (status = "failed" /\ ctorError = Some("chainId is required.") /\ ~isInitialized)
  /\ status = "ok"
     => (chainId = options.chainId /\ chainId # None /\ chainId[1] # 0)

C6_Witness ==
  /\ status = "failed"
  /\ options.chainId = Some(0)
  /\ options.signer # None /\ options.walletClient = None
  /\ options.customImplementation # None

\* C7: in the raw-signer branch createAccount invokes sendTransaction exactly
\* once, with exactly the transaction prepareCreateAccount returns for the same
\* parameters on the same client, and returns the signer's hash unchanged.
C7_CreateAccountSendsPrepared ==
  (last.op = "createAccount" /\ signer # None)
  => /\ Len(last.backendCalls) = 1
     /\ last.backendCalls[1].target = "signer"
     /\ last.backendCalls[1].method = "sendTransaction"
     /\ last.backendCalls[1].tx = Client_prepareCreateAccount(last.params[1]).result.value
     /\ last.args = Client_prepareCreateAccount(last.params[1]).args
     /\ last.backendCalls[1].tx.value = 0
     /\ last.backendCalls[1].reply.kind = "return"
          => last.result = last.backendCalls[1].reply

C7_Witness ==
  /\ last.op = "createAccount" /\ signer # None
  /\ customImplementation # None
  /\ last.params[1].registryAddress # None
  /\ last.params[1].implementationAddress # None
  /\ last.result.kind = "return"

C9_BackendsUseSameAddresses ==
  (last.op = "createAccount" /\ walletClient # None /\ last.args # None)
  => Effective(last.args[1]) =
       Effective(Client_prepareCreateAccount(
                   signerCreateParams(last.params[1],
                     implementation(customImplementation,
                                    last.params[1].implementationAddress))).args[1])

====
